---- MODULE Spec2Model ----
(***************************************************************************)
(* A model of rally-ci's libvirt provider and its remote command channel.  *)
(*                                                                         *)
(*   SpecBuild : one Host (src/rallyci/providers/virsh.py): build_image,   *)
(*               get_vm, VM.boot / run_script / shutdown / destroy and     *)
(*               Provider.cleanup, run by concurrent asyncio tasks that    *)
(*               interleave at every remote command.                       *)
(*                                                                         *)
(* asyncio is single threaded: a task runs without interruption from one   *)
(* suspension point (yield from of a remote command, a sleep, a lock wait) *)
(* to the next, so every action below is one such uninterrupted stretch.   *)
(* A sleep has no effect on the state and is merged with the command that  *)
(* follows it.                                                             *)
(***************************************************************************)
EXTENDS Integers, Sequences, FiniteSets, TLC

VARIABLES
    \* ---- Host / storage / hypervisor (SpecBuild)
    datasets,      \* names of the subvolumes that exist on the host's BTRFS path
    domains,       \* VMs the hypervisor lists as running (virsh list)
    IMAGE_LOCKS,   \* image name -> its asyncio.Lock: id and holder (0: not locked)
    vms,           \* Host.vms, the live list
    storage_name,  \* VM -> vm.storage_name ("" : attribute not set)
    ip,            \* VM -> whether vm.ip is set
    nextVm,        \* number of VM objects constructed so far
    stack,         \* task -> its call stack of coroutine frames
    result,        \* task -> outcome of its last top-level call
    opsLeft,       \* top-level calls still to be issued
    faultsLeft,    \* environment failures still to be injected
    \* ---- history (observation only)
    provCount,     \* image name -> provisioning sequences started for it
    provDone,      \* image names whose provisioning sequence has completed
    lastRet,       \* task -> last normal return of build_image: [name, present]
    booted,        \* VMs whose boot() returned normally inside get_vm
    destroyed,     \* VMs on which destroy() has returned
    log,           \* task -> commands issued by its current top-level call
    \* ---- Provider (SpecProvider)
    hosts,         \* Provider.hosts: sequence of the hosts' live lists (host.vms)
    request,       \* the get_vms call in progress
    picked,        \* history: what the last get_host() saw and returned
    \* ---- AsyncSSH.run (SpecSSH)
    ssh_args,      \* return_output, strip_output, raise_on_error of the call
    exit_code,     \* the status the command exits with when it runs to its end
    to_write,      \* chunks the child has still to write to its stdout
    child,         \* the child process: "none", "running", "exited"
    status,        \* the exit status of the child once it has exited
    buffer,        \* process.stdout: bytes fed to the StreamReader, not yet read
    eof,           \* process.stdout: feed_eof() has been called
    returncode,    \* process.returncode (None until the loop has reaped the child)
    ssh_pc,        \* position of the task running run(): "start", "read", "done"
    ssh_out,       \* how run() ended
    cb_calls,      \* history: the calls of self.cb
    term_sent,     \* process.terminate() has signalled the child
    reaper,        \* the task wrapping process.wait(): "none", "scheduled", "done"
    cancelled,     \* history: "no", or how the cancellation found the transport
    \* ---- VM.get_ip (SpecIp)
    ip_timeout,    \* the timeout argument, in units of time
    arp_at,        \* the poll from which the MAC is in the ARP table (0: never)
    self_ip,       \* the VM's ip attribute (NoIp while the attribute is not set)
    clock,         \* time.time(), in ticks
    deadline,      \* the local deadline, in ticks
    ip_pc,         \* position of get_ip(): "start", "check", "sleep", "run", "found", "done"
    ip_ret,        \* what get_ip() returned
    polls,         \* history: the times at which the ARP table was read
    called_at,     \* history: the time of the call

    \* ---- PeriodicTask (src/rallyci/common/periodictask.py)
    timers,        \* the loop's TimerHandles in order of call_later:
                   \* "scheduled", "cancelled" or "run"
    handler,       \* self._handler, an index of timers (0: attribute not set)
    periodic_pc,   \* "idle", or "method" while _run executes self.method()
    starts,        \* history: the number of start() calls
    stopped,       \* history: stop() has been called
    method_calls,  \* history: the number of invocations of the method
    calls_after_stop  \* history: those that began after stop()

hostVars == <<datasets, domains, IMAGE_LOCKS, vms, storage_name, ip, nextVm>>
taskVars == <<stack, result, opsLeft, faultsLeft>>
histVars == <<provCount, provDone, lastRet, booted, destroyed, log>>
buildVars == <<hostVars, taskVars, histVars>>

provVars == <<hosts, request, picked>>
sshVars == <<ssh_args, exit_code, to_write, child, status, buffer, eof, returncode,
             ssh_pc, ssh_out, cb_calls, term_sent, reaper, cancelled>>
ipVars == <<ip_timeout, arp_at, self_ip, clock, deadline, ip_pc, ip_ret, polls, called_at>>
periodicVars == <<timers, handler, periodic_pc, starts, stopped, method_calls,
                  calls_after_stop>>

\* what the Host model leaves alone
notBuild == <<provVars, sshVars, ipVars, periodicVars>>
\* what the Provider model leaves alone
notProv == <<buildVars, sshVars, ipVars, periodicVars>>
\* what the AsyncSSH model leaves alone
notSsh == <<buildVars, provVars, ipVars, periodicVars>>
\* what the get_ip model leaves alone
notIp == <<buildVars, provVars, sshVars, periodicVars>>
\* what the PeriodicTask model leaves alone
notPeriodic == <<buildVars, provVars, sshVars, ipVars>>

vars == <<buildVars, provVars, sshVars, ipVars, periodicVars>>

\* ------------------------------------------------------------------ bounds
NumTasks == 2
MaxOps == 3
MaxFaults == 1
MaxVMs == 2
MaxHosts == 4
MaxLive == 3
MaxChunks == 2
MaxPolls == 3
MaxCmdTicks == 2
MaxTimers == 5
MaxStarts == 2
MaxRuns == 3

Tasks == 1..NumTasks
VmIds == 1..MaxVMs

\* ------------------------------------------------- provider configuration
\* config["images"] and config["vms"]: the end-to-end example of the
\* specification (VM "worker" -> image "base" -> parent "minimal", fetched from
\* a url) plus "dev", a second child of "minimal" that has a build script, and
\* a VM named like its image.
Images == {"minimal", "base", "dev"}
VmNames == {"worker", "base"}

image_parent(name) ==
    CASE name = "base" -> "minimal"
      [] name = "dev" -> "minimal"
      [] OTHER -> ""

image_url(name) == IF name = "minimal" THEN "url" ELSE ""

build_scripts(name) == IF name = "dev" THEN <<"setup">> ELSE <<>>

vm_image(name) == "base"

\* utils.get_rnd_name(name): a fresh dataset name for VM object v
get_rnd_name(v) == "rnd" \o ToString(v)

\* time.time(): seconds since 1970, far beyond any timeout of the program
WallClock == 1000
ShutdownTimeout == 30
\* line 394: asyncio.sleep(4) between the polls of shutdown()
ShutdownInterval == 4

\* --------------------------------------------------------------- frames
Frame(fn, name, pc, vm) ==
    [fn |-> fn, name |-> name, pc |-> pc, vm |-> vm, i |-> 1, list |-> <<>>]

Top(t) == stack[t][Len(stack[t])]
Running(t, fn, pc) ==
    /\ stack[t] /= <<>>
    /\ Top(t).fn = fn
    /\ Top(t).pc = pc

Event(op, a, b) == [op |-> op, a |-> a, b |-> b]
Logged(t, e) == [log EXCEPT ![t] = Append(@, e)]

\* The frames below the raising one, unwound to the innermost handler: the only
\* try/except of the program is build_image's, around its scripts and shutdown.
RECURSIVE Unwind(_)
Unwind(s) ==
    IF s = <<>> THEN <<>>
    ELSE LET f == s[Len(s)] IN
         IF f.fn = "build_image" /\ f.pc = "script"
         THEN [s EXCEPT ![Len(s)].pc = "except"]
         ELSE Unwind(SubSeq(s, 1, Len(s) - 1))

\* The top frame raises.
RaiseStack(t) == Unwind(SubSeq(stack[t], 1, Len(stack[t]) - 1))
Raise(t) ==
    /\ stack' = [stack EXCEPT ![t] = RaiseStack(t)]
    /\ result' = [result EXCEPT ![t] = IF RaiseStack(t) = <<>> THEN "error" ELSE @]

\* The top frame returns normally to its caller.
Return(t) ==
    /\ stack' = [stack EXCEPT ![t] = SubSeq(@, 1, Len(@) - 1)]
    /\ result' = [result EXCEPT ![t] = IF Len(stack[t]) = 1 THEN "ok" ELSE @]

\* The top frame moves to pc and calls f.
Call(t, pc, f) ==
    /\ stack' = [stack EXCEPT ![t] = Append([@ EXCEPT ![Len(@)].pc = pc], f)]
    /\ UNCHANGED result

Goto(t, pc) ==
    /\ stack' = [stack EXCEPT ![t][Len(stack[t])].pc = pc]
    /\ UNCHANGED result


\* ------------------------------------------------------ storage (BTRFS)
\* Host.__init__ always builds a BTRFS backend (line 161).
\* exist: "btrfs subvolume show" succeeds exactly when the subvolume is there.
exist(name) == name \in datasets

\* clone: "btrfs subvolume snapshot src dst" needs the source subvolume.
clone_ok(src) == src \in datasets

\* create: "btrfs subvolume create" refuses an existing path.
create_ok(name) == name \notin datasets

\* destroy: "btrfs subvolume delete" fails on a missing subvolume.
storage_destroy_ok(name) == name \in datasets

\* ------------------------------------------------------- top-level calls
StartTask(t, f, first) ==
    /\ stack[t] = <<>>
    /\ opsLeft > 0
    /\ opsLeft' = opsLeft - 1
    /\ stack' = [stack EXCEPT ![t] = <<f>>]
    /\ result' = [result EXCEPT ![t] = "running"]
    /\ log' = [log EXCEPT ![t] = <<first>>]
    /\ UNCHANGED <<notBuild, hostVars, faultsLeft, provCount, provDone, lastRet, booted, destroyed>>

\* a caller starts Host.build_image(name)
StartBuild(t) ==
    \E name \in Images : StartTask(t, Frame("build_image", name, "lock", 0),
                                   Event("build_image", name, ""))

\* a caller starts Host.get_vm(name) (Provider.get_vms calls it for each name)
StartGetVm(t) ==
    \E name \in VmNames : StartTask(t, Frame("get_vm", name, "build", 0),
                                    Event("get_vm", name, ""))

\* a caller starts Provider.cleanup(vms) on VMs that get_vm returned
StartCleanup(t) ==
    \E k \in 1..Len(vms) :
        StartTask(t, [Frame("cleanup", "", "loop", 0) EXCEPT !.list = <<vms[k]>>],
                  Event("cleanup", ToString(vms[k]), ""))

\* a caller starts VM.shutdown() on a VM that get_vm returned
StartShutdown(t) ==
    \E k \in 1..Len(vms) :
        StartTask(t, Frame("shutdown", "", "get_ip", vms[k]),
                  Event("shutdown", ToString(vms[k]), ""))

\* a caller starts VM.destroy() on a VM that get_vm returned
StartDestroy(t) ==
    \E k \in 1..Len(vms) :
        StartTask(t, Frame("destroy", "", "virsh", vms[k]),
                  Event("destroy_vm", ToString(vms[k]), ""))

\* ------------------------------------------------------ Host.build_image
\* a mutation of setdefault: plain assignment, d[key] = value
setitem(d, key, value) ==
    [n \in DOMAIN d \cup {key} |-> IF n = key THEN value ELSE d[n]]

\* dict.setdefault(key, value): the dict afterwards
setdefault(d, key, value) ==
    IF key \in DOMAIN d THEN d
    ELSE [n \in DOMAIN d \cup {key} |-> IF n = key THEN value ELSE d[n]]

\* a mutation of release: the with block ends and the lock stays held
release_skipped(registry, name) == registry

\* the end of "with (yield from IMAGE_LOCKS[name])": Lock.release()
release(registry, name) == [registry EXCEPT ![name].holder = 0]

\* asyncio.Lock(): a new, unlocked lock object. A lock is identified by the
\* name it is made for and its generation: the first lock made for a name
\* is 1, a lock made to take the place of lock k is k + 1.
NewLock(registry, name) ==
    [id |-> IF name \in DOMAIN registry THEN registry[name].id + 1 ELSE 1,
     holder |-> 0]

\* lines 176-177: IMAGE_LOCKS.setdefault(name, Lock()); acquire (waits while held)
BuildLock(t) ==
    /\ Running(t, "build_image", "lock")
    /\ LET name == Top(t).name
           registry == setdefault(IMAGE_LOCKS, name, NewLock(IMAGE_LOCKS, name)) IN
        /\ registry[name].holder = 0
        /\ IMAGE_LOCKS' = [registry EXCEPT ![name].holder = t]
    /\ Goto(t, "exist")
    /\ UNCHANGED <<notBuild, datasets, domains, vms, storage_name, ip, nextVm,
                   opsLeft, faultsLeft, histVars>>

\* What build_image does once exist(name) has answered False (lines 181-193):
\* the lock is already released; choose the branch of the provisioning sequence.
ProvisionPc(name) ==
    IF image_parent(name) /= "" THEN "parent"
    ELSE IF image_url(name) /= "" THEN "dl_create"
    ELSE "scripts"

\* line 178: the remote command of storage.exist(name) runs on the host, under
\* the lock. When it finds the image the task resumes later (BuildFound); when
\* it does not, the with block ends and the provisioning sequence begins.
BuildExist(t) ==
    /\ Running(t, "build_image", "exist")
    /\ LET name == Top(t).name IN
        IF exist(name)
        THEN /\ Goto(t, "found")
             /\ UNCHANGED <<IMAGE_LOCKS, provCount, log>>
        ELSE /\ IMAGE_LOCKS' = release(IMAGE_LOCKS, name)
             /\ Goto(t, ProvisionPc(name))
             /\ provCount' = [provCount EXCEPT ![name] = @ + 1]
             /\ log' = Logged(t, Event("build", name, ""))
    /\ UNCHANGED <<notBuild, datasets, domains, vms, storage_name, ip, nextVm,
                   opsLeft, faultsLeft, provDone, lastRet, booted, destroyed>>

\* lines 178-180: the task resumes with the answer True, returns and so
\* releases the lock
BuildFound(t) ==
    /\ Running(t, "build_image", "found")
    /\ LET name == Top(t).name IN
        /\ IMAGE_LOCKS' = release(IMAGE_LOCKS, name)
        /\ lastRet' = [lastRet EXCEPT ![t] = [name |-> name, present |-> exist(name)]]
    /\ Return(t)
    /\ UNCHANGED <<notBuild, datasets, domains, vms, storage_name, ip, nextVm,
                   opsLeft, faultsLeft, provCount, provDone, booted, destroyed, log>>

\* lines 184-185: yield from self.build_image(parent)
BuildParent(t) ==
    /\ Running(t, "build_image", "parent")
    /\ Call(t, "clone", Frame("build_image", image_parent(Top(t).name), "lock", 0))
    /\ UNCHANGED <<notBuild, hostVars, opsLeft, faultsLeft, histVars>>

\* line 186: yield from self.storage.clone(parent, name)
BuildClone(t) ==
    /\ Running(t, "build_image", "clone")
    /\ LET name == Top(t).name
           parent == image_parent(name) IN
        /\ log' = Logged(t, Event("clone", parent, name))
        /\ IF clone_ok(parent)
           THEN /\ datasets' = datasets \cup {name}
                /\ Goto(t, "scripts")
           ELSE /\ Raise(t)
                /\ UNCHANGED datasets
    /\ UNCHANGED <<notBuild, domains, IMAGE_LOCKS, vms, storage_name, ip, nextVm,
                   opsLeft, faultsLeft, provCount, provDone, lastRet, booted, destroyed>>

\* lines 138-140: BTRFS.download, yield from self.create(name)
DownloadCreate(t) ==
    /\ Running(t, "build_image", "dl_create")
    /\ LET name == Top(t).name IN
        /\ log' = Logged(t, Event("download", name, ""))
        /\ IF create_ok(name)
           THEN /\ datasets' = datasets \cup {name}
                /\ Goto(t, "dl_wget")
           ELSE /\ Raise(t)
                /\ UNCHANGED datasets
    /\ UNCHANGED <<notBuild, domains, IMAGE_LOCKS, vms, storage_name, ip, nextVm,
                   opsLeft, faultsLeft, provCount, provDone, lastRet, booted, destroyed>>

\* lines 141-143: wget into the subvolume; the fetch may fail
DownloadWget(t) ==
    /\ Running(t, "build_image", "dl_wget")
    /\ \/ /\ Goto(t, "dl_resize")
          /\ UNCHANGED faultsLeft
       \/ /\ faultsLeft > 0
          /\ faultsLeft' = faultsLeft - 1
          /\ Raise(t)
    /\ UNCHANGED <<notBuild, hostVars, opsLeft, histVars>>

\* lines 145-147 and 190-191: qemu-img resize; then build_image returns
DownloadResize(t) ==
    /\ Running(t, "build_image", "dl_resize")
    /\ LET name == Top(t).name IN
       \/ /\ Return(t)
          /\ lastRet' = [lastRet EXCEPT ![t] = [name |-> name, present |-> exist(name)]]
          /\ provDone' = provDone \cup {name}
          /\ UNCHANGED faultsLeft
       \/ /\ faultsLeft > 0
          /\ faultsLeft' = faultsLeft - 1
          /\ Raise(t)
          /\ UNCHANGED <<lastRet, provDone>>
    /\ UNCHANGED <<notBuild, hostVars, opsLeft, provCount, booted, destroyed, log>>

\* lines 192-194 and 164-171: build scripts declared -> boot_image(name):
\* a VM object whose storage_name is the image itself, list_files (captured
\* output, never raises), then vm.boot()
BuildScripts(t) ==
    /\ Running(t, "build_image", "scripts")
    /\ LET name == Top(t).name IN
       IF build_scripts(name) /= <<>>
       THEN /\ nextVm < MaxVMs
            /\ nextVm' = nextVm + 1
            /\ storage_name' = [storage_name EXCEPT ![nextVm + 1] = name]
            /\ stack' = [stack EXCEPT ![t] =
                   Append([@ EXCEPT ![Len(@)].pc = "booted", ![Len(@)].vm = nextVm + 1],
                          Frame("boot", "", "cat", nextVm + 1))]
            /\ UNCHANGED result
       ELSE /\ Goto(t, "snapshot")
            /\ UNCHANGED <<nextVm, storage_name>>
    /\ UNCHANGED <<notBuild, datasets, domains, IMAGE_LOCKS, vms, ip, opsLeft, faultsLeft, histVars>>

\* line 195: boot_image returned, the try block is entered
BuildEnterTry(t) ==
    /\ Running(t, "build_image", "booted")
    /\ Goto(t, "script")
    /\ UNCHANGED <<notBuild, hostVars, opsLeft, faultsLeft, histVars>>

\* lines 196-200, inside try: run each script, then vm.shutdown()
BuildScriptLoop(t) ==
    /\ Running(t, "build_image", "script")
    /\ LET f == Top(t)
           n == Len(build_scripts(f.name)) IN
        /\ f.i <= n + 1
        /\ stack' = [stack EXCEPT ![t] =
               Append([@ EXCEPT ![Len(@)].i = f.i + 1],
                      IF f.i <= n
                      THEN Frame("run_script", build_scripts(f.name)[f.i], "get_ip", f.vm)
                      ELSE Frame("shutdown", "", "get_ip", f.vm))]
        /\ UNCHANGED result
    /\ UNCHANGED <<notBuild, hostVars, opsLeft, faultsLeft, histVars>>

\* lines 201-203: except: yield from vm.destroy()
BuildExcept(t) ==
    /\ Running(t, "build_image", "except")
    /\ Call(t, "reraise", Frame("destroy", "", "virsh", Top(t).vm))
    /\ UNCHANGED <<notBuild, hostVars, opsLeft, faultsLeft, histVars>>

\* line 204: raise
BuildReraise(t) ==
    /\ Running(t, "build_image", "reraise")
    /\ Raise(t)
    /\ UNCHANGED <<notBuild, hostVars, opsLeft, faultsLeft, histVars>>

\* lines 207-208: sleep(2); storage.snapshot(name) (a no-op on BTRFS); return
BuildSnapshot(t) ==
    /\ \/ Running(t, "build_image", "snapshot")
       \/ /\ Running(t, "build_image", "script")
          /\ Top(t).i = Len(build_scripts(Top(t).name)) + 2
    /\ LET name == Top(t).name IN
        /\ log' = Logged(t, Event("snapshot", name, ""))
        /\ lastRet' = [lastRet EXCEPT ![t] = [name |-> name, present |-> exist(name)]]
        /\ provDone' = provDone \cup {name}
    /\ Return(t)
    /\ UNCHANGED <<notBuild, hostVars, opsLeft, faultsLeft, provCount, booted, destroyed>>


\* ------------------------------------------------------------------- VM
\* lines 436-437: "cat > conf" with the domain XML as stdin; raises when it fails
BootCat(t) ==
    /\ Running(t, "boot", "cat")
    /\ \/ /\ Goto(t, "create")
          /\ UNCHANGED faultsLeft
       \/ /\ faultsLeft > 0
          /\ faultsLeft' = faultsLeft - 1
          /\ Raise(t)
    /\ UNCHANGED <<notBuild, hostVars, opsLeft, histVars>>

\* line 438: "virsh create c; rm c" is one remote command line: its exit status
\* is rm's, so boot() returns normally whether or not the domain was created
BootCreate(t) ==
    /\ Running(t, "boot", "create")
    /\ log' = Logged(t, Event("boot", ToString(Top(t).vm), ""))
    /\ \/ /\ domains' = domains \cup {Top(t).vm}
          /\ UNCHANGED faultsLeft
       \/ /\ faultsLeft > 0
          /\ faultsLeft' = faultsLeft - 1
          /\ UNCHANGED domains
    /\ Return(t)
    /\ UNCHANGED <<notBuild, datasets, IMAGE_LOCKS, vms, storage_name, ip, nextVm, opsLeft,
                   provCount, provDone, lastRet, booted, destroyed>>

\* lines 414-431, get_ip() as run_script and get_ssh use it: vm.ip is set when
\* the ARP table shows one of the VM's MACs before the deadline, which takes a
\* running domain; otherwise get_ip returns None and leaves vm.ip unset
GetIpFinds(v) == [ip EXCEPT ![v] = TRUE]

\* a mutation of read_ip_raises: an unset address reads as None
read_ip_as_none(has_ip) == FALSE

\* lines 381 and 411: the expression self.ip raises AttributeError while the
\* attribute has not been set
read_ip_raises(has_ip) == ~has_ip

\* lines 376-381: get_ip, sleep(30), then AsyncSSH(user, self.ip) reads vm.ip
RunScriptGetIp(t) ==
    /\ Running(t, "run_script", "get_ip")
    /\ LET v == Top(t).vm IN
       \/ /\ ip[v] \/ v \in domains
          /\ ip' = GetIpFinds(v)
          /\ log' = Logged(t, Event("get_ip", ToString(v), "found"))
          /\ Goto(t, "ssh")
          /\ UNCHANGED faultsLeft
       \/ /\ ~ip[v]
          /\ IF v \in domains
             THEN faultsLeft > 0 /\ faultsLeft' = faultsLeft - 1
             ELSE UNCHANGED faultsLeft
          /\ log' = Logged(t, Event("get_ip", ToString(v), "timeout"))
          /\ IF read_ip_raises(ip[v]) THEN Raise(t) ELSE Goto(t, "ssh")
          /\ UNCHANGED ip
    /\ UNCHANGED <<notBuild, datasets, domains, IMAGE_LOCKS, vms, storage_name, nextVm, opsLeft,
                   provCount, provDone, lastRet, booted, destroyed>>

\* asyncssh.py lines 39-40: the keyword parameters of AsyncSSH.run
run_keywords == {"stdin", "return_output", "strip_output", "raise_on_error"}

\* lines 382-384: the keywords run_script passes to ssh.run
run_script_keywords == {"stdin", "raise_on_error", "user"}

\* lines 382-385: ssh.run(interpreter, stdin=script data, raise_on_error=...,
\* user=...). AsyncSSH.run takes no keyword "user": the call raises TypeError
\* before any command is run. (A call that run() accepted would run the script
\* and raise on its failure.)
RunScriptSsh(t) ==
    /\ Running(t, "run_script", "ssh")
    /\ LET v == Top(t).vm IN
       IF run_script_keywords \subseteq run_keywords
       THEN \/ /\ v \in domains
               /\ log' = Logged(t, Event("script", Top(t).name, "0"))
               /\ Return(t)
               /\ UNCHANGED faultsLeft
            \/ /\ IF v \in domains
                  THEN faultsLeft > 0 /\ faultsLeft' = faultsLeft - 1
                  ELSE UNCHANGED faultsLeft
               /\ log' = Logged(t, Event("script", Top(t).name, "failed"))
               /\ Raise(t)
       ELSE /\ log' = Logged(t, Event("script", Top(t).name, "TypeError"))
            /\ Raise(t)
            /\ UNCHANGED faultsLeft
    /\ UNCHANGED <<notBuild, hostVars, opsLeft, provCount, provDone, lastRet, booted, destroyed>>

\* lines 389 and 409-411: get_ssh() -> get_ip(), AsyncSSH("root", self.ip)
ShutdownGetIp(t) ==
    /\ Running(t, "shutdown", "get_ip")
    /\ LET v == Top(t).vm IN
       \/ /\ ip[v] \/ v \in domains
          /\ ip' = GetIpFinds(v)
          /\ log' = Logged(t, Event("get_ip", ToString(v), "found"))
          /\ Goto(t, "cmd")
          /\ UNCHANGED faultsLeft
       \/ /\ ~ip[v]
          /\ IF v \in domains
             THEN faultsLeft > 0 /\ faultsLeft' = faultsLeft - 1
             ELSE UNCHANGED faultsLeft
          /\ log' = Logged(t, Event("get_ip", ToString(v), "timeout"))
          /\ IF read_ip_raises(ip[v]) THEN Raise(t) ELSE Goto(t, "cmd")
          /\ UNCHANGED ip
    /\ UNCHANGED <<notBuild, datasets, domains, IMAGE_LOCKS, vms, storage_name, nextVm, opsLeft,
                   provCount, provDone, lastRet, booted, destroyed>>

\* line 390: ssh.run("shutdown -h now"), raise_on_error=True
ShutdownCmd(t) ==
    /\ Running(t, "shutdown", "cmd")
    /\ LET v == Top(t).vm IN
        /\ log' = Logged(t, Event("power_off", ToString(v), ""))
        /\ \/ /\ v \in domains
              /\ Goto(t, "poll")
              /\ UNCHANGED faultsLeft
           \/ /\ IF v \in domains
                 THEN faultsLeft > 0 /\ faultsLeft' = faultsLeft - 1
                 ELSE UNCHANGED faultsLeft
              /\ Raise(t)
    /\ UNCHANGED <<notBuild, hostVars, opsLeft, provCount, provDone, lastRet, booted, destroyed>>

\* line 398: elif time.time() > timeout (the duration, not the deadline of line 391)
ShutdownGivesUp(now) == now > ShutdownTimeout

\* time.time() at the k-th poll of a shutdown() whose deadline was taken at
\* WallClock (line 391): k sleeps of line 394 later
PollTime(k) == WallClock + k * ShutdownInterval

\* lines 393-400: sleep(4); "virsh list | grep -q name" with raise_on_error=False;
\* the guest may or may not have powered off by now
ShutdownPoll(t) ==
    /\ Running(t, "shutdown", "poll")
    /\ LET v == Top(t).vm IN
       \/ /\ domains' = domains \ {v}
          /\ Return(t)
       \/ /\ v \in domains
          /\ UNCHANGED domains
          /\ IF ShutdownGivesUp(PollTime(Top(t).i))
             THEN Call(t, "ret", Frame("destroy", "", "virsh", v))
             ELSE /\ stack' = [stack EXCEPT ![t][Len(stack[t])].i = @ + 1]
                  /\ UNCHANGED result
    /\ UNCHANGED <<notBuild, datasets, IMAGE_LOCKS, vms, storage_name, ip, nextVm,
                   opsLeft, faultsLeft, histVars>>

\* line 400: return after the forced destroy
ShutdownReturn(t) ==
    /\ Running(t, "shutdown", "ret")
    /\ Return(t)
    /\ UNCHANGED <<notBuild, hostVars, opsLeft, faultsLeft, histVars>>

\* asyncssh.py lines 79-82: a command whose output is not captured raises
\* SSHError on a nonzero exit status when raise_on_error is set
run_raises(exit_status, raise_on_error) == raise_on_error /\ exit_status /= 0

\* a mutation of destroy_raise_on_error: the default of AsyncSSH.run
destroy_raise_on_error_default == TRUE

\* line 405: self._ssh.run(cmd, raise_on_error=False)
destroy_raise_on_error == FALSE

\* "virsh destroy name" exits nonzero when the domain is not running
virsh_destroy_status(v) == IF v \in domains THEN 0 ELSE 1

\* lines 404-405: "virsh destroy name", raise_on_error=False
DestroyVirsh(t) ==
    /\ Running(t, "destroy", "virsh")
    /\ LET v == Top(t).vm IN
        /\ log' = Logged(t, Event("virsh_destroy", ToString(v),
                                  ToString(virsh_destroy_status(v))))
        /\ domains' = domains \ {v}
        /\ IF run_raises(virsh_destroy_status(v), destroy_raise_on_error)
           THEN Raise(t)
           ELSE Goto(t, "storage")
    /\ UNCHANGED <<notBuild, datasets, IMAGE_LOCKS, vms, storage_name, ip, nextVm,
                   opsLeft, faultsLeft, provCount, provDone, lastRet, booted, destroyed>>

\* What VM.destroy() does to Host.vms (lines 403-406): nothing
destroy_vms(list, v) == list

\* line 406: self.host.storage.destroy(self.storage_name)
DestroyStorage(t) ==
    /\ Running(t, "destroy", "storage")
    /\ LET v == Top(t).vm IN
       IF storage_name[v] /= "" /\ storage_destroy_ok(storage_name[v])
       THEN /\ datasets' = datasets \ {storage_name[v]}
            /\ vms' = destroy_vms(vms, v)
            /\ destroyed' = destroyed \cup {v}
            /\ log' = Logged(t, Event("destroy", ToString(v), storage_name[v]))
            /\ Return(t)
       ELSE /\ Raise(t)
            /\ UNCHANGED <<datasets, vms, destroyed, log>>
    /\ UNCHANGED <<notBuild, domains, IMAGE_LOCKS, storage_name, ip, nextVm, opsLeft, faultsLeft,
                   provCount, provDone, lastRet, booted>>

\* ------------------------------------------------------ Provider.cleanup
\* lines 315-317: for vm in vms: yield from vm.destroy(); then sleep(1)
Cleanup(t) ==
    /\ Running(t, "cleanup", "loop")
    /\ LET f == Top(t) IN
       IF f.i <= Len(f.list)
       THEN /\ stack' = [stack EXCEPT ![t] =
                   Append([@ EXCEPT ![Len(@)].i = f.i + 1],
                          Frame("destroy", "", "virsh", f.list[f.i]))]
            /\ UNCHANGED result
       ELSE Return(t)
    /\ UNCHANGED <<notBuild, hostVars, opsLeft, faultsLeft, histVars>>

\* ----------------------------------------------------------- Host.get_vm
\* lines 212-213: yield from self.build_image(conf["image"])
GetVmBuild(t) ==
    /\ Running(t, "get_vm", "build")
    /\ Call(t, "clone", Frame("build_image", vm_image(Top(t).name), "lock", 0))
    /\ UNCHANGED <<notBuild, hostVars, opsLeft, faultsLeft, histVars>>

\* The dataset get_vm clones for the VM called name (line 215): name itself
get_vm_clone_src(name) == name

\* lines 214-216: rnd_name; storage.clone(name, rnd_name); VM(...)
GetVmClone(t) ==
    /\ Running(t, "get_vm", "clone")
    /\ nextVm < MaxVMs
    /\ LET name == Top(t).name
           v == nextVm + 1
           src == get_vm_clone_src(name) IN
        /\ log' = Logged(t, Event("clone", src, get_rnd_name(v)))
        /\ IF clone_ok(src)
           THEN /\ datasets' = datasets \cup {get_rnd_name(v)}
                /\ nextVm' = v
                /\ stack' = [stack EXCEPT ![t][Len(stack[t])] =
                                [@ EXCEPT !.pc = "boot", !.vm = v]]
                /\ UNCHANGED result
           ELSE /\ Raise(t)
                /\ UNCHANGED <<datasets, nextVm>>
    /\ UNCHANGED <<notBuild, domains, IMAGE_LOCKS, vms, storage_name, ip, opsLeft, faultsLeft,
                   provCount, provDone, lastRet, booted, destroyed>>

\* lines 217-223: list_files (captured output, never raises), add disks and
\* nets, yield from vm.boot()
GetVmBoot(t) ==
    /\ Running(t, "get_vm", "boot")
    /\ Call(t, "append", Frame("boot", "", "cat", Top(t).vm))
    /\ UNCHANGED <<notBuild, hostVars, opsLeft, faultsLeft, histVars>>

\* a mutation of get_vm_storage_name: the dataset the VM was cloned from,
\* as boot_image does at line 167
storage_name_of_source(src, rnd_name) == src

\* line 225: vm.storage_name = rnd_name
get_vm_storage_name(src, rnd_name) == rnd_name

\* lines 224-226: self.vms.append(vm); vm.storage_name = rnd_name; return vm
GetVmAppend(t) ==
    /\ Running(t, "get_vm", "append")
    /\ LET v == Top(t).vm IN
        /\ vms' = Append(vms, v)
        /\ storage_name' = [storage_name EXCEPT ![v] =
               get_vm_storage_name(get_vm_clone_src(Top(t).name), get_rnd_name(v))]
        /\ booted' = booted \cup {v}
    /\ Return(t)
    /\ UNCHANGED <<notBuild, datasets, domains, IMAGE_LOCKS, ip, nextVm, opsLeft, faultsLeft,
                   provCount, provDone, lastRet, destroyed, log>>

\* ============================================================== Provider
\* SpecProvider: Provider.get_host and Provider.get_vms over a pool of hosts
\* whose live lists start with any loads earlier requests can have left.

\* the live list of host h when it holds c VMs
LiveList(h, c) == [k \in 1..c |-> 10 * h + k]

\* a mutation of Fewer: "<=" for "<"
FewerOrEqual(n_vms, best) == n_vms <= best

\* line 328: if n_vms < vms
Fewer(n_vms, best) == n_vms < best

\* lines 326-330: the loop over self.hosts from host k on; host is the best so
\* far (vms, its count, is Len(pool[host]))
RECURSIVE get_host_from(_, _, _)
get_host_from(pool, k, host) ==
    IF k > Len(pool) THEN host
    ELSE get_host_from(pool, k + 1,
                       IF Fewer(Len(pool[k]), Len(pool[host])) THEN k ELSE host)

\* lines 323-331: Provider.get_host, as the index of the host it returns
get_host(pool) == get_host_from(pool, 1, 1)

\* the vm_names a caller passes to get_vms
NameLists == {<<"worker">>, <<"worker", "base">>}

IdleRequest == [pc |-> "idle", host |-> 0, names |-> <<>>, i |-> 1, vms |-> <<>>]

\* lines 335-336: vms = []; host = self.get_host()
GetVmsStart ==
    /\ request.pc = "idle"
    /\ \E names \in NameLists :
          request' = [pc |-> "loop", host |-> get_host(hosts), names |-> names,
                      i |-> 1, vms |-> <<>>]
    /\ hosts' = hosts
    /\ picked' = [counts |-> [h \in 1..Len(hosts) |-> Len(hosts[h])],
                  host |-> get_host(hosts),
                  before |-> hosts,
                  after |-> hosts']
    /\ UNCHANGED notProv

\* lines 337-339 with Host.get_vm (lines 211-226): the VM is appended to the
\* chosen host's live list when get_vm gets through; when it raises, get_vms ends
GetVmsGetVm ==
    /\ request.pc = "loop"
    /\ request.i <= Len(request.names)
    /\ LET h == request.host
           v == 10 * h + Len(hosts[h]) + 1 IN
       \/ /\ hosts' = [hosts EXCEPT ![h] = Append(@, v)]
          /\ request' = [request EXCEPT !.i = @ + 1, !.vms = Append(@, v)]
       \/ /\ request' = [request EXCEPT !.pc = "error"]
          /\ UNCHANGED hosts
    /\ UNCHANGED <<picked, notProv>>

\* line 340: return vms
GetVmsReturn ==
    /\ request.pc = "loop"
    /\ request.i > Len(request.names)
    /\ request' = [request EXCEPT !.pc = "done"]
    /\ UNCHANGED <<hosts, picked, notProv>>

ProviderIdle ==
    /\ request = IdleRequest
    /\ picked = [counts |-> <<>>, host |-> 0, before |-> <<>>, after |-> <<>>]

ProviderNext ==
    \/ GetVmsStart
    \/ GetVmsGetVm
    \/ GetVmsReturn

\* ============================================================ AsyncSSH
\* SpecSSH: one call of AsyncSSH.run (src/rallyci/common/asyncssh.py), its
\* child process and the event loop's callbacks for that child. The child's
\* exit is seen by the loop as two separate events, in either order: the end
\* of its stdout pipe (feed_eof) and its exit status (process.returncode).

\* process.returncode before the loop has collected the exit status
None == -1000

\* signal.SIGTERM, sent by process.terminate()
SIGTERM == 15

\* exit statuses of the remote command
ExitCodes == {0, 7}

\* one chunk of output
Chunks == {<<"x">>, <<" ">>}

RECURSIVE ChunkSeqs(_)
ChunkSeqs(n) ==
    IF n = 0 THEN {<<>>}
    ELSE ChunkSeqs(n - 1) \cup
         {Append(q, c) : q \in {q \in ChunkSeqs(n - 1) : Len(q) = n - 1}, c \in Chunks}

RECURSIVE lstrip(_)
lstrip(text) == IF text /= <<>> /\ Head(text) = " " THEN lstrip(Tail(text)) ELSE text

RECURSIVE rstrip(_)
rstrip(text) ==
    IF text /= <<>> /\ text[Len(text)] = " "
    THEN rstrip(SubSeq(text, 1, Len(text) - 1))
    ELSE text

\* str.strip()
strip(text) == lstrip(rstrip(text))

Outcome(kind, code, text) == [kind |-> kind, code |-> code, text |-> text]

\* Python truth of process.returncode
Truthy(rc) == rc /= None /\ rc /= 0

\* lines 74-82: what run() does after the read loop, with process.returncode rc
\* and the accumulated output
run_result(args, rc, output) ==
    IF args.return_output
    THEN Outcome("return_output", None, IF args.strip_output THEN strip(output) ELSE output)
    ELSE IF Truthy(rc) /\ args.raise_on_error
         THEN Outcome("SSHError", rc, <<>>)
         ELSE Outcome("return_code", rc, <<>>)

\* StreamReader.at_eof(): feed_eof() was called and the buffer is empty
at_eof(buf, fed) == fed /\ buf = <<>>

\* line 65, process.stdout.read() without a size: reads until EOF, so it
\* returns only once feed_eof() has been called
read_returns(buf, fed) == fed

\* lines 56-65: the subprocess is spawned, stdout is not at EOF, and the task
\* suspends in the first read()
SshSpawn ==
    /\ ssh_pc = "start"
    /\ child' = "running"
    /\ ssh_pc' = "read"
    /\ UNCHANGED <<ssh_args, exit_code, to_write, status, buffer, eof, returncode,
                   ssh_out, cb_calls, term_sent, reaper, cancelled, notSsh>>

\* the child writes a chunk; the loop feeds it to process.stdout
ChildWrite ==
    /\ child = "running"
    /\ to_write /= <<>>
    /\ buffer' = buffer \o Head(to_write)
    /\ to_write' = Tail(to_write)
    /\ UNCHANGED <<ssh_args, exit_code, child, status, eof, returncode,
                   ssh_pc, ssh_out, cb_calls, term_sent, reaper, cancelled, notSsh>>

\* the child has written everything and exits with its status
ChildExit ==
    /\ child = "running"
    /\ to_write = <<>>
    /\ child' = "exited"
    /\ status' = exit_code
    /\ UNCHANGED <<ssh_args, exit_code, to_write, buffer, eof, returncode,
                   ssh_pc, ssh_out, cb_calls, term_sent, reaper, cancelled, notSsh>>

\* the child dies of the SIGTERM that process.terminate() sent (line 70)
ChildKilled ==
    /\ child = "running"
    /\ term_sent
    /\ child' = "exited"
    /\ status' = 0 - SIGTERM
    /\ UNCHANGED <<ssh_args, exit_code, to_write, buffer, eof, returncode,
                   ssh_pc, ssh_out, cb_calls, term_sent, reaper, cancelled, notSsh>>

\* the loop finds the child's stdout pipe closed: feed_eof()
FeedEof ==
    /\ child = "exited"
    /\ ~eof
    /\ eof' = TRUE
    /\ UNCHANGED <<ssh_args, exit_code, to_write, child, status, buffer, returncode,
                   ssh_pc, ssh_out, cb_calls, term_sent, reaper, cancelled, notSsh>>

\* the loop's child watcher collects the exit status: process.returncode is set
ProcessExited ==
    /\ child = "exited"
    /\ returncode = None
    /\ returncode' = status
    /\ UNCHANGED <<ssh_args, exit_code, to_write, child, status, buffer, eof,
                   ssh_pc, ssh_out, cb_calls, term_sent, reaper, cancelled, notSsh>>

\* lines 64-68 and 74-82: read() returns, cb(line), output += line; when stdout
\* is then at EOF the loop ends and run() finishes without suspending again
SshRead ==
    /\ ssh_pc = "read"
    /\ read_returns(buffer, eof)
    /\ buffer' = <<>>
    /\ cb_calls' = Append(cb_calls, [data |-> buffer, fed_eof |-> eof,
                                     running |-> child = "running"])
    /\ LET output == IF ssh_args.return_output THEN ssh_out.text \o buffer ELSE <<>> IN
       IF at_eof(<<>>, eof)
       THEN /\ ssh_pc' = "done"
            /\ ssh_out' = run_result(ssh_args, returncode, output)
       ELSE /\ ssh_pc' = "read"
            /\ ssh_out' = [ssh_out EXCEPT !.text = output]
    /\ UNCHANGED <<ssh_args, exit_code, to_write, child, status, eof, returncode,
                   term_sent, reaper, cancelled, notSsh>>

\* line 71: asyncio.async(process.wait(), loop=...)
wait_scheduled == "scheduled"

\* The subprocess transport is finished once the loop has seen both the exit
\* status and the end of every pipe; asyncio then drops the process, and
\* terminate() on it raises ProcessLookupError.
transport_finished == returncode /= None /\ eof

\* lines 69-72: CancelledError is thrown into the task at the read() it is
\* suspended in (also when read()'s result is ready but the task has not run
\* yet): process.terminate(); asyncio.async(process.wait()); raise
SshCancel ==
    /\ ssh_pc = "read"
    /\ ssh_pc' = "done"
    /\ IF transport_finished
       THEN /\ cancelled' = "finished"
            /\ ssh_out' = Outcome("ProcessLookupError", None, <<>>)
            /\ UNCHANGED <<term_sent, reaper>>
       ELSE /\ cancelled' = "open"
            /\ term_sent' = TRUE
            /\ reaper' = wait_scheduled
            /\ ssh_out' = Outcome("CancelledError", None, <<>>)
    /\ UNCHANGED <<ssh_args, exit_code, to_write, child, status, buffer, eof,
                   returncode, cb_calls, notSsh>>

\* the scheduled process.wait() returns once the exit status is there
Reap ==
    /\ reaper = "scheduled"
    /\ returncode /= None
    /\ reaper' = "done"
    /\ UNCHANGED <<ssh_args, exit_code, to_write, child, status, buffer, eof,
                   returncode, ssh_pc, ssh_out, cb_calls, term_sent, cancelled, notSsh>>

SshIdle ==
    /\ ssh_args = [return_output |-> FALSE, strip_output |-> TRUE, raise_on_error |-> TRUE]
    /\ exit_code = 0
    /\ to_write = <<>>
    /\ child = "none"
    /\ status = None
    /\ buffer = <<>>
    /\ eof = FALSE
    /\ returncode = None
    /\ ssh_pc = "idle"
    /\ ssh_out = Outcome("none", None, <<>>)
    /\ cb_calls = <<>>
    /\ term_sent = FALSE
    /\ reaper = "none"
    /\ cancelled = "no"

SshNext ==
    \/ SshSpawn
    \/ ChildWrite
    \/ ChildExit
    \/ ChildKilled
    \/ FeedEof
    \/ ProcessExited
    \/ SshRead
    \/ SshCancel
    \/ Reap

\* The event loop runs every ready callback and task, and a signalled child dies.
SshFairness ==
    /\ WF_vars(ChildKilled)
    /\ WF_vars(FeedEof)
    /\ WF_vars(ProcessExited)
    /\ WF_vars(SshRead)
    /\ WF_vars(Reap)

\* ============================================================ VM.get_ip
\* SpecIp: one call of VM.get_ip (virsh.py lines 413-431) against the wall
\* clock. Time is counted in ticks. asyncio.sleep(4) lasts the poll interval,
\* and every run of the egrep command over ssh spawns a process and so takes
\* at least one tick; all the commands of a call together take at most one
\* unit of time.

\* line 423: asyncio.sleep(4)
PollInterval == 4

TicksPerUnit == MaxPolls * MaxCmdTicks

\* the timeouts of the calls: whole numbers of poll intervals
Timeouts == {PollInterval * k : k \in 1..MaxPolls}

\* self.ip before the attribute exists, and the None that get_ip returns
NoIp == "None"

\* the address in the line of /proc/net/arp that IP_RE matches
ArpAddress == "10.0.0.2"

\* a mutation of deadline_from: the timeout is taken for the deadline
deadline_is_timeout(now, timeout) == timeout * TicksPerUnit

\* line 418: deadline = time.time() + timeout
deadline_from(now, timeout) == now + timeout * TicksPerUnit

\* line 421: time.time() > deadline
deadline_passed(now, until) == now > until

\* lines 414-418: the address is known already (sleep(0), return self.ip), or
\* the deadline is computed
GetIpCall ==
    /\ ip_pc = "start"
    /\ called_at' = clock
    /\ IF self_ip /= NoIp
       THEN /\ ip_pc' = "done"
            /\ ip_ret' = self_ip
            /\ UNCHANGED deadline
       ELSE /\ ip_pc' = "check"
            /\ deadline' = deadline_from(clock, ip_timeout)
            /\ UNCHANGED ip_ret
    /\ UNCHANGED <<ip_timeout, arp_at, self_ip, clock, polls, notIp>>

\* lines 421-422: past the deadline get_ip returns None
GetIpCheck ==
    /\ ip_pc = "check"
    /\ IF deadline_passed(clock, deadline)
       THEN /\ ip_pc' = "done"
            /\ ip_ret' = NoIp
       ELSE /\ ip_pc' = "sleep"
            /\ UNCHANGED ip_ret
    /\ UNCHANGED <<ip_timeout, arp_at, self_ip, clock, deadline, polls, called_at, notIp>>

\* line 423: asyncio.sleep(4); then the command is started
GetIpSleep ==
    /\ ip_pc = "sleep"
    /\ clock' = clock + PollInterval * TicksPerUnit
    /\ polls' = Append(polls, clock')
    /\ ip_pc' = "run"
    /\ UNCHANGED <<ip_timeout, arp_at, self_ip, deadline, ip_ret, called_at, notIp>>

\* lines 424-428: the command has run for d ticks; a line of its output that
\* IP_RE matches sets self.ip
GetIpRun(d) ==
    /\ ip_pc = "run"
    /\ clock' = clock + d
    /\ IF arp_at /= 0 /\ Len(polls) >= arp_at
       THEN /\ self_ip' = ArpAddress
            /\ ip_pc' = "found"
       ELSE /\ ip_pc' = "check"
            /\ UNCHANGED self_ip
    /\ UNCHANGED <<ip_timeout, arp_at, deadline, ip_ret, polls, called_at, notIp>>

\* lines 430-431: asyncio.sleep(4) and a bare return
GetIpFound ==
    /\ ip_pc = "found"
    /\ clock' = clock + PollInterval * TicksPerUnit
    /\ ip_pc' = "done"
    /\ ip_ret' = NoIp
    /\ UNCHANGED <<ip_timeout, arp_at, self_ip, deadline, polls, called_at, notIp>>

IpIdle ==
    /\ ip_timeout = 0
    /\ arp_at = 0
    /\ self_ip = NoIp
    /\ clock = 0
    /\ deadline = 0
    /\ ip_pc = "idle"
    /\ ip_ret = NoIp
    /\ polls = <<>>
    /\ called_at = 0

IpNext ==
    \/ GetIpCall
    \/ GetIpCheck
    \/ GetIpSleep
    \/ \E d \in 1..MaxCmdTicks : GetIpRun(d)
    \/ GetIpFound

\* ========================================================= PeriodicTask
\* SpecPeriodic: one PeriodicTask (periodictask.py lines 20-38) on the event
\* loop. Callbacks of the loop run one at a time: start() and stop() from
\* other callbacks happen between runs of _run, and the method itself may
\* call stop(). A timer that is due runs at any later moment.

\* loop.call_later(interval, callback): the loop's timers afterwards
call_later(handles) == Append(handles, "scheduled")

\* TimerHandle.cancel(): a handle is cancelled; one that has run stays as it is
cancel(handles, h) ==
    [handles EXCEPT ![h] = IF @ = "scheduled" THEN "cancelled" ELSE @]

\* lines 21-25: the task after construction
PeriodicIdle ==
    /\ timers = <<>>
    /\ handler = 0
    /\ periodic_pc = "idle"
    /\ starts = 0
    /\ stopped = FALSE
    /\ method_calls = 0
    /\ calls_after_stop = 0

\* lines 34-35: start(), called before any stop()
PeriodicStart ==
    /\ periodic_pc = "idle"
    /\ ~stopped
    /\ starts < MaxStarts
    /\ Len(timers) < MaxTimers
    /\ timers' = call_later(timers)
    /\ handler' = Len(timers) + 1
    /\ starts' = starts + 1
    /\ UNCHANGED <<periodic_pc, stopped, method_calls, calls_after_stop, notPeriodic>>

\* lines 37-38: stop() on a started task, from another callback
PeriodicStop ==
    /\ periodic_pc = "idle"
    /\ handler /= 0
    /\ ~stopped
    /\ timers' = cancel(timers, handler)
    /\ stopped' = TRUE
    /\ UNCHANGED <<handler, periodic_pc, starts, method_calls, calls_after_stop,
                   notPeriodic>>

\* lines 27-28, 31-32: the loop runs the due timer h: _run calls run(), which
\* calls the method
TimerRuns(h) ==
    /\ periodic_pc = "idle"
    /\ timers[h] = "scheduled"
    /\ method_calls < MaxRuns
    /\ Len(timers) < MaxTimers
    /\ timers' = [timers EXCEPT ![h] = "run"]
    /\ periodic_pc' = "method"
    /\ method_calls' = method_calls + 1
    /\ calls_after_stop' = IF stopped THEN calls_after_stop + 1 ELSE calls_after_stop
    /\ UNCHANGED <<handler, starts, stopped, notPeriodic>>

\* lines 37-38: the method calls stop() on its task
MethodStops ==
    /\ periodic_pc = "method"
    /\ ~stopped
    /\ timers' = cancel(timers, handler)
    /\ stopped' = TRUE
    /\ UNCHANGED <<handler, periodic_pc, starts, method_calls, calls_after_stop,
                   notPeriodic>>

\* line 29: the method has returned; _run schedules the next run, whatever
\* the method did
MethodReturns ==
    /\ periodic_pc = "method"
    /\ timers' = call_later(timers)
    /\ handler' = Len(timers) + 1
    /\ periodic_pc' = "idle"
    /\ UNCHANGED <<starts, stopped, method_calls, calls_after_stop, notPeriodic>>

\* line 28: the method raises; _run ends before line 29
MethodRaises ==
    /\ periodic_pc = "method"
    /\ periodic_pc' = "idle"
    /\ UNCHANGED <<timers, handler, starts, stopped, method_calls, calls_after_stop,
                   notPeriodic>>

PeriodicNext ==
    \/ PeriodicStart
    \/ PeriodicStop
    \/ \E h \in 1..MaxTimers : h <= Len(timers) /\ TimerRuns(h)
    \/ MethodStops
    \/ MethodReturns
    \/ MethodRaises

\* --------------------------------------------------------- specification
BuildInit ==
    /\ hosts = <<>>
    /\ ProviderIdle
    /\ SshIdle
    /\ IpIdle
    /\ PeriodicIdle
    /\ datasets = {}
    /\ domains = {}
    /\ IMAGE_LOCKS = <<>>
    /\ vms = <<>>
    /\ storage_name = [v \in VmIds |-> ""]
    /\ ip = [v \in VmIds |-> FALSE]
    /\ nextVm = 0
    /\ stack = [t \in Tasks |-> <<>>]
    /\ result = [t \in Tasks |-> "idle"]
    /\ opsLeft = MaxOps
    /\ faultsLeft = MaxFaults
    /\ provCount = [n \in Images |-> 0]
    /\ provDone = {}
    /\ lastRet = [t \in Tasks |-> [name |-> "", present |-> TRUE]]
    /\ booted = {}
    /\ destroyed = {}
    /\ log = [t \in Tasks |-> <<>>]

BuildNext ==
    \E t \in Tasks :
        \/ StartBuild(t)
        \/ StartGetVm(t)
        \/ StartCleanup(t)
        \/ StartDestroy(t)
        \/ StartShutdown(t)
        \/ BuildLock(t)
        \/ BuildExist(t)
        \/ BuildFound(t)
        \/ BuildParent(t)
        \/ BuildClone(t)
        \/ DownloadCreate(t)
        \/ DownloadWget(t)
        \/ DownloadResize(t)
        \/ BuildScripts(t)
        \/ BuildEnterTry(t)
        \/ BuildScriptLoop(t)
        \/ BuildExcept(t)
        \/ BuildReraise(t)
        \/ BuildSnapshot(t)
        \/ BootCat(t)
        \/ BootCreate(t)
        \/ RunScriptGetIp(t)
        \/ RunScriptSsh(t)
        \/ ShutdownGetIp(t)
        \/ ShutdownCmd(t)
        \/ ShutdownPoll(t)
        \/ ShutdownReturn(t)
        \/ DestroyVirsh(t)
        \/ DestroyStorage(t)
        \/ Cleanup(t)
        \/ GetVmBuild(t)
        \/ GetVmClone(t)
        \/ GetVmBoot(t)
        \/ GetVmAppend(t)

SpecBuild == BuildInit /\ [][BuildNext]_vars

\* one step of the coroutine of task t, once its call has been made
TaskStep(t) ==
    \/ BuildLock(t) \/ BuildExist(t) \/ BuildFound(t) \/ BuildParent(t)
    \/ BuildClone(t) \/ DownloadCreate(t) \/ DownloadWget(t) \/ DownloadResize(t)
    \/ BuildScripts(t) \/ BuildEnterTry(t) \/ BuildScriptLoop(t) \/ BuildExcept(t)
    \/ BuildReraise(t) \/ BuildSnapshot(t) \/ BootCat(t) \/ BootCreate(t)
    \/ RunScriptGetIp(t) \/ RunScriptSsh(t) \/ ShutdownGetIp(t) \/ ShutdownCmd(t)
    \/ ShutdownPoll(t) \/ ShutdownReturn(t) \/ DestroyVirsh(t) \/ DestroyStorage(t)
    \/ Cleanup(t) \/ GetVmBuild(t) \/ GetVmClone(t) \/ GetVmBoot(t) \/ GetVmAppend(t)

\* The Host model when every remote command terminates and the event loop
\* resumes every task that can run. The callers stay free to make no call.
SpecBuildFair ==
    BuildInit /\ [][BuildNext]_vars /\ \A t \in Tasks : WF_vars(TaskStep(t))

\* the Host model at rest
BuildIdle ==
    /\ datasets = {}
    /\ domains = {}
    /\ IMAGE_LOCKS = <<>>
    /\ vms = <<>>
    /\ storage_name = [v \in VmIds |-> ""]
    /\ ip = [v \in VmIds |-> FALSE]
    /\ nextVm = 0
    /\ stack = [t \in Tasks |-> <<>>]
    /\ result = [t \in Tasks |-> "idle"]
    /\ opsLeft = 0
    /\ faultsLeft = 0
    /\ provCount = [n \in Images |-> 0]
    /\ provDone = {}
    /\ lastRet = [t \in Tasks |-> [name |-> "", present |-> TRUE]]
    /\ booted = {}
    /\ destroyed = {}
    /\ log = [t \in Tasks |-> <<>>]

ProviderInit ==
    /\ \E n \in 1..MaxHosts :
          \E c \in [1..n -> 0..MaxLive] :
              hosts = [h \in 1..n |-> LiveList(h, c[h])]
    /\ ProviderIdle
    /\ BuildIdle
    /\ SshIdle
    /\ IpIdle
    /\ PeriodicIdle

SpecProvider == ProviderInit /\ [][ProviderNext]_vars

SshInit ==
    /\ ssh_args \in [return_output : BOOLEAN, strip_output : BOOLEAN,
                     raise_on_error : BOOLEAN]
    /\ exit_code \in ExitCodes
    /\ to_write \in ChunkSeqs(MaxChunks)
    /\ child = "none"
    /\ status = None
    /\ buffer = <<>>
    /\ eof = FALSE
    /\ returncode = None
    /\ ssh_pc = "start"
    /\ ssh_out = Outcome("none", None, <<>>)
    /\ cb_calls = <<>>
    /\ term_sent = FALSE
    /\ reaper = "none"
    /\ cancelled = "no"
    /\ hosts = <<>>
    /\ ProviderIdle
    /\ BuildIdle
    /\ IpIdle
    /\ PeriodicIdle

SpecSSH == SshInit /\ [][SshNext]_vars /\ SshFairness

IpInit ==
    /\ ip_timeout \in Timeouts
    /\ arp_at \in 0..MaxPolls
    /\ self_ip \in {NoIp, ArpAddress}
    /\ clock = WallClock * TicksPerUnit
    /\ deadline = 0
    /\ ip_pc = "start"
    /\ ip_ret = NoIp
    /\ polls = <<>>
    /\ called_at = 0
    /\ hosts = <<>>
    /\ ProviderIdle
    /\ BuildIdle
    /\ SshIdle
    /\ PeriodicIdle

\* get_ip() is a task of the event loop: it runs whenever it can
SpecIp == IpInit /\ [][IpNext]_vars /\ WF_vars(IpNext)

PeriodicInit ==
    /\ PeriodicIdle
    /\ hosts = <<>>
    /\ ProviderIdle
    /\ BuildIdle
    /\ SshIdle
    /\ IpIdle

SpecPeriodic == PeriodicInit /\ [][PeriodicNext]_vars



\* ------------------------------------------------------------------ claims
Range(q) == {q[k] : k \in DOMAIN q}

IsPrefix(p, q) == Len(p) <= Len(q) /\ SubSeq(q, 1, Len(p)) = p

\* task t has a build_image(name) frame that is past the existence check, i.e.
\* in the provisioning steps (parent / clone / download / boot / scripts /
\* shutdown / snapshot)
Provisioning(t, name) ==
    \E k \in 1..Len(stack[t]) :
        /\ stack[t][k].fn = "build_image"
        /\ stack[t][k].name = name
        /\ stack[t][k].pc \notin {"lock", "exist", "found"}

Provisioners(name) == {t \in Tasks : Provisioning(t, name)}

\* C1: for every image name, at most one task at a time executes the
\* provisioning steps of build_image(name).
C1_OneProvisionerPerImage ==
    \A name \in Images : Cardinality(Provisioners(name)) <= 1

\* C2: whenever build_image(name) returns normally, exist(name) is true.
C2_ReturnImpliesExist ==
    \A t \in Tasks : lastRet[t].present

ParentImages == {image_parent(n) : n \in Images} \ {""}

\* C3: a parent is provisioned before the clone parent -> child is issued, and
\* a parent shared by two children is provisioned exactly once in total.
C3_ParentFirstAndOnce ==
    /\ \A t \in Tasks :
          Running(t, "build_image", "clone") => exist(image_parent(Top(t).name))
    /\ \A p \in ParentImages : provCount[p] <= 1

\* C5: Host.vms holds exactly the VMs that get_vm booted and that have not
\* been destroyed since.
C5_LiveListIsBootedNotDestroyed ==
    Range(vms) = booted \ destroyed

\* The commands the end-to-end example issues, in order, when get_vm("worker")
\* is the only call on a host without datasets and nothing fails.
ExpectedWorkerLog ==
    << Event("get_vm", "worker", ""),
       Event("build", "base", ""),
       Event("build", "minimal", ""),
       Event("download", "minimal", ""),
       Event("clone", "minimal", "base"),
       Event("snapshot", "base", ""),
       Event("clone", "base", get_rnd_name(1)),
       Event("boot", ToString(1), "") >>

\* C9: get_vm("worker") on an empty host issues build "minimal", clone
\* "minimal" -> "base", snapshot "base", clone "base" -> ephemeral name, boot,
\* in this order.
C9_WorkerEndToEndOrder ==
    \A t \in Tasks :
        ( /\ opsLeft = MaxOps - 1
          /\ faultsLeft = MaxFaults
          /\ log[t] /= <<>>
          /\ log[t][1] = Event("get_vm", "worker", "") )
        => IsPrefix(log[t], ExpectedWorkerLog)


\* the least count of a vector of live-VM counts
MinCount(c) == CHOOSE m \in Range(c) : \A x \in Range(c) : m <= x

\* the smallest index whose count is the least
FirstLeast(c) ==
    CHOOSE i \in DOMAIN c :
        /\ c[i] = MinCount(c)
        /\ \A j \in DOMAIN c : j < i => c[j] /= MinCount(c)

\* C4: get_host returns the host at the smallest index among those with the
\* fewest live VMs, and leaves every host's live list as it was.
C4_GetHostFirstLeastLoaded ==
    picked.host /= 0 =>
        /\ picked.host = FirstLeast(picked.counts)
        /\ picked.after = picked.before

\* C4 witness: counts [2,2,1,3] -> the host at index 2 (counting from 0)
C4_Witness ==
    /\ picked.counts = <<2, 2, 1, 3>>
    /\ picked.host = 3

\* ------------------------------------------------------------ AsyncSSH.run
\* run() came back to its caller with a return value or an SSHError
Finished == ssh_pc = "done" /\ cancelled = "no"

\* C6: with return_output=False the outcome of run() follows the child's
\* actual exit status whatever the order of stdout EOF and process exit:
\* status 0 returns 0, a nonzero status c raises SSHError carrying c when
\* raise_on_error is set and returns c otherwise (never None or 0).
C6_OutcomeFollowsExitCode ==
    (Finished /\ ~ssh_args.return_output) =>
        IF status = 0
        THEN ssh_out = Outcome("return_code", 0, <<>>)
        ELSE IF ssh_args.raise_on_error
             THEN ssh_out = Outcome("SSHError", status, <<>>)
             ELSE ssh_out = Outcome("return_code", status, <<>>)

\* C7: a cancellation delivered between the spawn of the child and the return
\* of run() sends terminate to the child, schedules the reaping wait and
\* re-raises CancelledError to the caller.
C7_CancelTerminatesAndReraises ==
    cancelled /= "no" =>
        /\ term_sent
        /\ reaper /= "none"
        /\ ssh_out.kind = "CancelledError"

RECURSIVE Delivered(_)
\* the number of chunks (of one byte each) handed to the sink by these calls
Delivered(calls) ==
    IF calls = <<>> THEN 0 ELSE Len(Head(calls).data) + Delivered(Tail(calls))

\* C10: when the child produced several chunks of output, the sink was called
\* with data at least once before the end of the child's output stream.
C10_SinkSeesDataBeforeEof ==
    (Finished /\ Delivered(cb_calls) >= 2) =>
        \E k \in 1..Len(cb_calls) :
            /\ cb_calls[k].data /= <<>>
            /\ ~cb_calls[k].fed_eof

\* ---------------------------------------------------------------- VM.get_ip
\* a call that had to look the address up and never found the MAC
TimedOut == ip_pc = "done" /\ called_at /= 0 /\ deadline /= 0 /\ arp_at = 0

Elapsed(t) == t - called_at

\* the k-th poll happened at about k poll intervals after the call
PollsOnTime ==
    \A k \in 1..Len(polls) :
        /\ Elapsed(polls[k]) >= k * PollInterval * TicksPerUnit
        /\ Elapsed(polls[k]) < (k * PollInterval + 1) * TicksPerUnit

\* C8: get_ip(timeout=T) on a VM whose MAC never shows up terminates and
\* returns None once T units have elapsed: not before T, after one poll per
\* interval up to T (for T=8: at 4 and at 8), and without another poll
\* interval after the deadline.
C8_GetIpTimesOutAtDeadline ==
    /\ <>(ip_pc = "done")
    /\ [](TimedOut =>
            /\ ip_ret = NoIp
            /\ self_ip = NoIp
            /\ Elapsed(clock) >= ip_timeout * TicksPerUnit
            /\ Elapsed(clock) <= (ip_timeout + 1) * TicksPerUnit
            /\ Len(polls) * PollInterval = ip_timeout
            /\ PollsOnTime)

C8_Witness ==
    /\ TimedOut
    /\ ip_timeout = 2 * PollInterval
    /\ Len(polls) = 2
    /\ ip_ret = NoIp
    /\ Elapsed(clock) > ip_timeout * TicksPerUnit

\* ------------------------------------------------------------- VM.shutdown
\* task t is in a shutdown() that has called the forced destroy()
ForcedDestroy(t) ==
    \E k \in 1..Len(stack[t]) :
        /\ stack[t][k].fn = "shutdown"
        /\ stack[t][k].pc = "ret"

\* the number of the poll at which that shutdown() called destroy()
ForcedAtPoll(t) ==
    LET k == CHOOSE k \in 1..Len(stack[t]) :
                 stack[t][k].fn = "shutdown" /\ stack[t][k].pc = "ret"
    IN stack[t][k].i

\* C11: shutdown() calls the forced destroy() only at a poll that lies past
\* the deadline, start time + timeout; before that it keeps polling.
C11_ForcedDestroyOnlyPastDeadline ==
    \A t \in Tasks :
        ForcedDestroy(t) => PollTime(ForcedAtPoll(t)) > WallClock + ShutdownTimeout

\* ------------------------------------------------- build_image, error path
\* the events of task t's log that follow its last "build" of name
RECURSIVE SinceBuild(_, _)
SinceBuild(q, name) ==
    IF q = <<>> \/ q[Len(q)] = Event("build", name, "") THEN <<>>
    ELSE Append(SinceBuild(SubSeq(q, 1, Len(q) - 1), name), q[Len(q)])

\* task t is in the handler of build_image (lines 201-204), inside vm.destroy()
\* at its storage removal
InExceptDestroy(t) ==
    /\ Len(stack[t]) >= 2
    /\ Running(t, "destroy", "storage")
    /\ stack[t][Len(stack[t]) - 1].fn = "build_image"
    /\ stack[t][Len(stack[t]) - 1].pc = "reraise"

\* C12: when a build script or the shutdown after them fails, build_image(name)
\* destroys the throwaway VM and re-raises the failure (the destroy of the
\* handler does not fail in its place); no snapshot of name was taken in the
\* attempt, and exist(name) is false when the failure reaches the caller.
C12_FailedBuildLeavesNoImage ==
    \A t \in Tasks :
        /\ InExceptDestroy(t) => storage_destroy_ok(storage_name[Top(t).vm])
        /\ Running(t, "build_image", "reraise") =>
              /\ Top(t).vm \notin domains
              /\ Top(t).vm \in destroyed
              /\ Event("snapshot", Top(t).name, "") \notin Range(SinceBuild(log[t], Top(t).name))
              /\ ~exist(Top(t).name)

\* C13: build_image(name) never returns early at its existence check on a
\* dataset that an interrupted attempt left behind: when the check finds name
\* and no attempt is under way, a provisioning sequence of name has completed.
C13_EarlyReturnOnlyOnBuiltImage ==
    \A t \in Tasks :
        ( /\ Running(t, "build_image", "exist")
          /\ exist(Top(t).name)
          /\ Provisioners(Top(t).name) = {} )
        => Top(t).name \in provDone

\* --------------------------------------------------------------- VM.destroy
\* task t was started as a destroy() of a VM that get_vm returned
DestroyTask(t, v) ==
    /\ log[t] /= <<>>
    /\ log[t][1] = Event("destroy_vm", ToString(v), "")

\* every storage removal in q directly follows a hypervisor destroy of the
\* same VM
DestroyOrder(q) ==
    \A k \in 1..Len(q) :
        q[k].op = "destroy" =>
            /\ k > 1
            /\ q[k - 1].op = "virsh_destroy"
            /\ q[k - 1].a = q[k].a

\* C14: destroy() issues the hypervisor destroy first and the removal of the
\* VM's storage clone second; a nonzero exit of the hypervisor destroy does
\* not raise (destroy() of a VM fails only when its clone is already removed),
\* and once destroy() has returned the domain is gone and the clone does not
\* exist.
C14_DestroyOrderAndTolerance ==
    /\ \A t \in Tasks : DestroyOrder(log[t])
    /\ \A t \in Tasks : Running(t, "destroy", "storage") => Top(t).vm \notin domains
    /\ \A v \in booted \cap destroyed :
          /\ v \notin domains
          /\ ~exist(get_rnd_name(v))
    /\ \A t \in Tasks : \A v \in booted :
          (DestroyTask(t, v) /\ result[t] = "error") => v \in destroyed

\* a VM whose domain was not running has been destroyed without error
C14_Witness ==
    \E t \in Tasks : \E v \in booted \cap destroyed :
        /\ DestroyTask(t, v)
        /\ result[t] = "ok"
        /\ log[t] = << Event("destroy_vm", ToString(v), ""),
                       Event("virsh_destroy", ToString(v), "1"),
                       Event("destroy", ToString(v), get_rnd_name(v)) >>

\* ------------------------------------------------- AsyncSSH.run, continued
\* C15: whenever raise_on_error is set and the process has exited with a
\* nonzero status by the time run() ends, run() fails with SSHError carrying
\* that status, whatever return_output is.
C15_NonzeroExitRaises ==
    [][ ( /\ ssh_pc = "read"
          /\ ssh_pc' = "done"
          /\ cancelled' = "no"
          /\ ssh_args.raise_on_error
          /\ Truthy(returncode) )
        => ssh_out' = Outcome("SSHError", returncode, <<>>) ]_vars

\* ------------------------------------------------- address resolution fails
\* get_ip timed out in task t's current call
TimeoutLogged(t) ==
    \E k \in 1..Len(log[t]) : log[t][k].op = "get_ip" /\ log[t][k].b = "timeout"

\* the script or power-off commands task t issued after a get_ip timeout
AfterTimeout(t) ==
    {k \in 1..Len(log[t]) :
        /\ log[t][k].op \in {"script", "power_off"}
        /\ \E j \in 1..(k - 1) :
              /\ log[t][j].op = "get_ip"
              /\ log[t][j].b = "timeout"
              /\ \A l \in (j + 1)..(k - 1) : log[t][l].op /= "get_ip"}

\* C16: when get_ip times out, run_script and shutdown raise to their caller:
\* neither the script nor the power-off command is run on an unresolved
\* address, and the image build or shutdown call in which it happened does not
\* complete normally.
C16_IpTimeoutIsFatal ==
    \A t \in Tasks :
        /\ Running(t, "run_script", "ssh") => ip[Top(t).vm]
        /\ Running(t, "shutdown", "cmd") => ip[Top(t).vm]
        /\ AfterTimeout(t) = {}
        /\ TimeoutLogged(t) =>
              /\ result[t] /= "ok"
              /\ Event("snapshot", "dev", "") \notin Range(log[t])

\* an image build has failed on a get_ip timeout of its run_script
C16_Witness ==
    \E t \in Tasks :
        /\ TimeoutLogged(t)
        /\ log[t][1] = Event("build_image", "dev", "")
        /\ result[t] = "error"
        /\ "dev" \notin provDone

\* ---------------------------------------------- AsyncSSH.run, return_output
\* C17: with return_output=True run() returns the accumulated output
\* (stripped when strip_output is set), and the sink is not called with any
\* of that output.
C17_CapturedOutputBypassesSink ==
    (Finished /\ ssh_args.return_output) =>
        /\ ssh_out.kind = "return_output"
        /\ ssh_args.strip_output => ssh_out.text = strip(ssh_out.text)
        /\ \A k \in 1..Len(cb_calls) : cb_calls[k].data = <<>>

\* ---------------------------------------------------- Provider.get_vms
\* the host on whose live list VM v of the Provider model was registered
HostOf(v) == v \div 10

\* the live-VM counts when the k-th VM of the request was placed: the counts
\* at the start of the request plus the request's earlier VMs
CountsBefore(k) ==
    [h \in DOMAIN picked.counts |->
        picked.counts[h] + Cardinality({j \in 1..(k - 1) : HostOf(request.vms[j]) = h})]

\* C18: get_vms selects the least-loaded host for each requested name, counting
\* the VMs it has registered earlier in the same request.
C18_EachVmOnLeastLoadedHost ==
    request.pc = "done" =>
        \A k \in 1..Len(request.vms) :
            HostOf(request.vms[k]) = FirstLeast(CountsBefore(k))

\* ------------------------------------------------- Host.get_vm, error path
\* some task is inside the get_vm call that created VM v
Allocating(v) ==
    \E t \in Tasks : \E k \in 1..Len(stack[t]) :
        stack[t][k].fn = "get_vm" /\ stack[t][k].vm = v

\* C19: an ephemeral clone exists only for a VM on the live list or for one
\* whose get_vm is still under way: a get_vm that fails after the clone
\* removes the clone again.
C19_NoOrphanClone ==
    \A v \in VmIds :
        exist(get_rnd_name(v)) => (v \in Range(vms) \/ Allocating(v))

\* ------------------------------------------------------ get_ip on a match
\* C20: a get_ip call that ends with the VM's address known returns that
\* address: the call that found the match as well as every later call, which
\* does not poll.
C20_GetIpReturnsAddress ==
    (ip_pc = "done" /\ self_ip /= NoIp) =>
        /\ ip_ret = self_ip
        /\ called_at /= 0 /\ deadline = 0 => polls = <<>>


\* ------------------------------------------------------------------ C21
\* the images of the build_image calls that have passed their setdefault
Requested ==
    {f.name : f \in {g \in UNION {Range(stack[t]) : t \in 1..NumTasks} :
                        g.fn = "build_image" /\ g.pc /= "lock"}}

\* C21: the registry IMAGE_LOCKS only grows. In every step each name that is
\* mapped stays mapped to the lock object it had, whether the build_image
\* calls succeed or fail.
C21_RegistryOnlyGrows ==
    /\ [](Requested \subseteq DOMAIN IMAGE_LOCKS)
    /\ [][\A n \in DOMAIN IMAGE_LOCKS :
            /\ n \in DOMAIN IMAGE_LOCKS'
            /\ IMAGE_LOCKS'[n].id = IMAGE_LOCKS[n].id]_vars

\* after a failed build, an image that was provisioned before is requested
\* again and the call holds the first lock that was made for it
C21_Witness ==
    /\ \E t \in Tasks : result[t] = "error"
    /\ \E t \in Tasks :
        /\ Running(t, "build_image", "exist")
        /\ provCount[Top(t).name] > 0
        /\ IMAGE_LOCKS[Top(t).name] = [id |-> 1, holder |-> t]

\* ------------------------------------------------------------------ C22
\* task t waits at line 177 for the lock of its image
Waiting(t) == Running(t, "build_image", "lock")

\* the holder of every held lock is inside the with block of that image:
\* at the existence check, neither waiting for a lock nor in a nested call
HolderInsideWith ==
    \A n \in DOMAIN IMAGE_LOCKS :
        LET t == IMAGE_LOCKS[n].holder IN
            t /= 0 => /\ stack[t] /= <<>>
                      /\ Top(t).fn = "build_image"
                      /\ Top(t).name = n
                      /\ Top(t).pc \in {"exist", "found"}

DestroyStep(t, v) ==
    /\ stack[t] /= <<>>
    /\ Top(t).fn = "destroy"
    /\ Top(t).vm = v
    /\ stack'[t] /= stack[t]

\* C23: a step of VM.destroy() on a VM that get_vm returned removes no
\* dataset but that VM's own clone, which is no image and no other VM's
\* storage, and adds none.
C23_DestroyRemovesOnlyOwnClone ==
    [][\A t \in Tasks : \A v \in booted :
          DestroyStep(t, v) =>
              /\ datasets' \subseteq datasets
              /\ datasets \ datasets' \subseteq {storage_name[v]}
              /\ storage_name[v] \notin Images
              /\ \A w \in VmIds \ {v} : storage_name[w] /= storage_name[v]]_vars

\* a VM that get_vm returned is destroyed: its clone is gone and the image
\* it was cloned from is still there
C23_Witness ==
    \E v \in booted \cap destroyed :
        /\ storage_name[v] \notin datasets
        /\ get_vm_clone_src("base") \in datasets
        /\ Len(vms) > 0


\* ------------------------------------------------------------------ C24
\* C24: once stop() has been called on a started PeriodicTask, no timer is
\* scheduled and no invocation of the method begins, wherever stop() was
\* called: between runs, inside the method, or after two start() calls.
C24_StopIsFinal ==
    stopped => /\ \A h \in 1..Len(timers) : timers[h] /= "scheduled"
               /\ calls_after_stop = 0

====
